---- MODULE Spec2Model ----
(***************************************************************************)
(* Task-discipline state machine of src/task_enforcer.py                   *)
(* (TaskSystemEnforcer): task selection against the registry document      *)
(* SESSION_STATE.json, the work-log gate, per-action justification         *)
(* validation, risk tiering and tiered completion-proof validation.        *)
(*                                                                         *)
(* Strings are kept as TLA+ strings in the state; the table Chars gives    *)
(* the characters of every string of the model, and lower(), strip(),      *)
(* split(), replace() and the "in" substring test are computed on those    *)
(* character sequences.  Wall-clock values (datetime.now()) are written by *)
(* the code into current_task["start_time"] and into the "timestamp" of a  *)
(* history record but are never read back by any decision of the enforcer; *)
(* they are left out of the records.                                       *)
(***************************************************************************)
EXTENDS Integers, Sequences, FiniteSets, TLC

(***************************************************************************)
(* Bounds of the model.                                                    *)
(***************************************************************************)
\* validate_action is not taken once validation_history holds this many records
MaxHistory == 2

(***************************************************************************)
(* Program constants.                                                      *)
(***************************************************************************)
\* len(justification.strip()) < 20
MinJustificationLen == 20
\* len(word) > 3
MinKeywordLen == 3

(***************************************************************************)
(* Strings.                                                                *)
(***************************************************************************)
Chars ==
     ("T1: implement user auth" :> <<"T","1",":"," ","i","m","p","l","e","m","e","n","t"," ","u","s","e","r"," ","a","u","t","h">>)
  @@ ("T2: update docs" :> <<"T","2",":"," ","u","p","d","a","t","e"," ","d","o","c","s">>)
  @@ ("T3: Refactor API" :> <<"T","3",":"," ","R","e","f","a","c","t","o","r"," ","A","P","I">>)
  @@ ("T2: fix bug" :> <<"T","2",":"," ","f","i","x"," ","b","u","g">>)
  @@ ("Implementing login for T1 auth" :> <<"I","m","p","l","e","m","e","n","t","i","n","g"," ","l","o","g","i","n"," ","f","o","r"," ","T","1"," ","a","u","t","h">>)
  @@ ("  refactor api module \t\n" :> <<" "," ","r","e","f","a","c","t","o","r"," ","a","p","i"," ","m","o","d","u","l","e"," ","\t","\n">>)
  @@ ("UPDATE DOCS and TEXT" :> <<"U","P","D","A","T","E"," ","D","O","C","S"," ","a","n","d"," ","T","E","X","T">>)
  @@ ("tidy the API code paths" :> <<"t","i","d","y"," ","t","h","e"," ","A","P","I"," ","c","o","d","e"," ","p","a","t","h","s">>)
  @@ ("test" :> <<"t","e","s","t">>)
  @@ ("k8s" :> <<"k","8","s">>)
  @@ ("Pre-Production Dockerfile" :> <<"P","r","e","-","P","r","o","d","u","c","t","i","o","n"," ","D","o","c","k","e","r","f","i","l","e">>)
  @@ ("rAPId prototyping" :> <<"r","A","P","I","d"," ","p","r","o","t","o","t","y","p","i","n","g">>)
  @@ ("deploy" :> <<"d","e","p","l","o","y">>)
  @@ ("security" :> <<"s","e","c","u","r","i","t","y">>)
  @@ ("auth" :> <<"a","u","t","h">>)
  @@ ("database" :> <<"d","a","t","a","b","a","s","e">>)
  @@ ("kubernetes" :> <<"k","u","b","e","r","n","e","t","e","s">>)
  @@ ("production" :> <<"p","r","o","d","u","c","t","i","o","n">>)
  @@ ("implement" :> <<"i","m","p","l","e","m","e","n","t">>)
  @@ ("refactor" :> <<"r","e","f","a","c","t","o","r">>)
  @@ ("api" :> <<"a","p","i">>)
  @@ ("service" :> <<"s","e","r","v","i","c","e">>)
  @@ ("docker" :> <<"d","o","c","k","e","r">>)

UpperToLower ==
  ("A" :> "a") @@ ("B" :> "b") @@ ("C" :> "c") @@ ("D" :> "d") @@ ("E" :> "e")
  @@ ("F" :> "f") @@ ("G" :> "g") @@ ("H" :> "h") @@ ("I" :> "i") @@ ("J" :> "j")
  @@ ("K" :> "k") @@ ("L" :> "l") @@ ("M" :> "m") @@ ("N" :> "n") @@ ("O" :> "o")
  @@ ("P" :> "p") @@ ("Q" :> "q") @@ ("R" :> "r") @@ ("S" :> "s") @@ ("T" :> "t")
  @@ ("U" :> "u") @@ ("V" :> "v") @@ ("W" :> "w") @@ ("X" :> "x") @@ ("Y" :> "y")
  @@ ("Z" :> "z")

\* the characters str.strip() and str.split() treat as whitespace
Whitespace == {" ", "\t", "\n"}

\* str.lower() on one character
LowerChar(c) == IF c \in DOMAIN UpperToLower THEN UpperToLower[c] ELSE c

\* str.lower() on a character sequence
RECURSIVE Lower(_)
Lower(cs) ==
  IF cs = <<>> THEN <<>> ELSE <<LowerChar(Head(cs))>> \o Lower(Tail(cs))

\* str.replace(old, new) for single characters
RECURSIVE Replace(_, _, _)
Replace(cs, old, new) ==
  IF cs = <<>> THEN <<>>
  ELSE <<IF Head(cs) = old THEN new ELSE Head(cs)>> \o Replace(Tail(cs), old, new)

RECURSIVE LStrip(_)
LStrip(cs) ==
  IF cs # <<>> /\ Head(cs) \in Whitespace THEN LStrip(Tail(cs)) ELSE cs

RECURSIVE RStrip(_)
RStrip(cs) ==
  IF cs # <<>> /\ cs[Len(cs)] \in Whitespace THEN RStrip(SubSeq(cs, 1, Len(cs) - 1)) ELSE cs

\* str.strip()
Strip(cs) == RStrip(LStrip(cs))

\* str.split(): the maximal runs of non-whitespace characters, in order
RECURSIVE SplitFrom(_, _, _)
SplitFrom(cs, word, acc) ==
  IF cs = <<>>
  THEN IF word = <<>> THEN acc ELSE Append(acc, word)
  ELSE IF Head(cs) \in Whitespace
       THEN SplitFrom(Tail(cs), <<>>, IF word = <<>> THEN acc ELSE Append(acc, word))
       ELSE SplitFrom(Tail(cs), Append(word, Head(cs)), acc)

Split(cs) == SplitFrom(cs, <<>>, <<>>)

\* needle in hay (substring test on character sequences)
Contains(hay, needle) ==
  \E i \in 1..(Len(hay) - Len(needle) + 1) : SubSeq(hay, i, i + Len(needle) - 1) = needle

Range(s) == {s[i] : i \in 1..Len(s)}

\* list.remove(x): drops the first occurrence of x
RECURSIVE RemoveFirst(_, _)
RemoveFirst(s, x) ==
  IF s = <<>> THEN <<>>
  ELSE IF Head(s) = x THEN Tail(s) ELSE <<Head(s)>> \o RemoveFirst(Tail(s), x)

(***************************************************************************)
(* Enumerations of the enforcer.                                           *)
(***************************************************************************)
\* class TaskRiskLevel
LOW == "low"
MEDIUM == "medium"
HIGH == "high"

\* class ValidationResult
APPROVED == "approved"
REJECTED == "rejected"
PENDING == "pending_human_review"
BLOCKED == "blocked"

(***************************************************************************)
(* Inputs the operations are called with.                                  *)
(***************************************************************************)
\* task identifiers: one HIGH, one MEDIUM, two LOW (the last one has no
\* word of more than 3 characters); each registry document lists some of them
TaskIds ==
  {"T1: implement user auth", "T3: Refactor API", "T2: update docs", "T2: fix bug"}

\* identifiers in no registry document, classified only: a HIGH and a MEDIUM
\* keyword inside longer upper-case words, and a MEDIUM keyword inside a word
UnlistedIds == {"Pre-Production Dockerfile", "rAPId prototyping"}

\* the code stores the description and never examines it
ActionDescriptions == {"add login"}

\* the second one has 19 characters once stripped, the third one exactly 20
Justifications ==
  {"Implementing login for T1 auth", "  refactor api module \t\n",
   "UPDATE DOCS and TEXT", "tidy the API code paths"}

\* values of a proof package: strings, None and booleans
Str(s) == [type |-> "str", s |-> s, b |-> FALSE]
PyNone == [type |-> "none", s |-> "", b |-> FALSE]
PyBool(b) == [type |-> "bool", s |-> "", b |-> b]

\* truth value of a Python object ("not proof_data[req_key]")
Truthy(v) ==
  CASE v.type = "str" -> v.s # ""
    [] v.type = "none" -> FALSE
    [] v.type = "bool" -> v.b

BaseKeys == {"file_evidence", "functional_test", "error_check"}
MediumKeys == {"integration_test", "syntax_validation"}
HighKeys == {"comprehensive_testing", "security_check", "human_review_required"}

Filled(keys) == [k \in keys |-> Str("x")]

\* an empty dict
EmptyDict == [k \in {} |-> Str("")]

ProofPackages ==
  { EmptyDict,
    Filled(BaseKeys),
    ("functional_test" :> Str("x")) @@ ("error_check" :> Str("")),
    Filled(BaseKeys \cup MediumKeys),
    Filled(BaseKeys \cup HighKeys),
    [Filled(BaseKeys \cup HighKeys) EXCEPT !["security_check"] = PyNone,
                                          !["human_review_required"] = PyBool(FALSE)],
    Filled(BaseKeys \cup MediumKeys \cup HighKeys) }

\* the registry document with the single task "T1: implement user auth"
SingleTaskDocument ==
  ("active_tasks" :> <<"T1: implement user auth">>) @@ ("completed_tasks" :> <<>>)

\* registry documents the enforcer is started on: one with project metadata
\* and a HIGH and a MEDIUM task, one without the completed_tasks key and with
\* an identifier listed twice (the code does not keep active_tasks unique),
\* and the single-task document
InitialDocuments ==
  { ("project_name" :> "demo")
      @@ ("active_tasks" :> <<"T1: implement user auth", "T3: Refactor API">>)
      @@ ("completed_tasks" :> <<>>),
    ("active_tasks" :> <<"T2: update docs", "T2: fix bug", "T2: update docs">>),
    SingleTaskDocument }

(***************************************************************************)
(* State.                                                                  *)
(***************************************************************************)
VARIABLES
  doc,                 \* the registry document SESSION_STATE.json (a dict)
  current_task,        \* self.current_task: NoTask or <<record>>
  work_log_active,     \* self.work_log_active
  validation_history,  \* self.validation_history
  last,                \* the last call: operation, selected identifier, returned value
  selected,            \* observer: the last APPROVED set_current_task since the last APPROVED completion
  log_started,         \* observer: a start_work_log returned APPROVED since the last APPROVED completion
  review_pending,      \* observer: a validate_completion returned PENDING since the last APPROVED selection
  file,                \* SESSION_STATE.json on disk: "json" (doc is its content), "absent" or "corrupt"
  modules,             \* the global _enforcer_instance of task_enforcer and the one of llm_guard
  peers,               \* enforcer instances of other processes on the same SESSION_STATE.json
  guard,               \* the LLMActionGuard of the with statement in progress, or how the last one ended
  wrapped              \* how the last call of a function wrapped for completion ended

session_vars == <<current_task, work_log_active, validation_history>>
observer_vars == <<selected, log_started, review_pending>>
layer_vars == <<guard, wrapped>>
env_vars == <<file, modules, peers>>
vars == <<doc, current_task, work_log_active, validation_history, last, selected, log_started,
          review_pending, file, modules, peers, guard, wrapped>>

\* self.current_task = None
NoTask == <<>>

\* dict.get(key, default)
Get(d, key, default) == IF key \in DOMAIN d THEN d[key] ELSE default

\* a message returned with a result: its kind and the items it lists
Message(kind, items) == [kind |-> kind, items |-> items]

\* the record of a call and of what it returned
Call(op, task_id, result, message) ==
  [op |-> op, task_id |-> task_id, result |-> result, message |-> message]

\* enforcer instances constructed on the same document, each in a process of
\* its own
Instances == {"A", "B"}

\* a TaskSystemEnforcer after __init__, outside any call: current_task, the
\* position in validate_completion ("idle", or "loaded" between the load of
\* line 308 and the write of lines 316-317), the session loaded last, the
\* last returned value and the task of the last APPROVED completion
NewInstance ==
  [current_task |-> NoTask, pc |-> "idle", session |-> <<>>,
   returned |-> Call("__init__", "", "", Message("", <<>>)), completed |-> ""]

\* no with statement was run yet
NoGuard ==
  [phase |-> "none", action_description |-> "", justification |-> "", constructed_for |-> "",
   executed |-> FALSE, unit_raised |-> "None", exit_returned |-> <<>>, raised |-> "None"]

\* no wrapped function was called yet
NotCalled == [op |-> "", executed |-> FALSE, raised |-> "None", returned |-> <<>>]

\* the observers follow the returned values only
Observe ==
  /\ selected' =
       IF last'.op = "set_current_task" /\ last'.result = APPROVED
       THEN <<[id |-> last'.task_id,
               was_active |-> last'.task_id \in Range(Get(doc, "active_tasks", <<>>))]>>
       ELSE IF last'.op = "validate_completion" /\ last'.result = APPROVED
            THEN <<>>
            ELSE selected
  /\ log_started' =
       IF last'.op = "start_work_log" /\ last'.result = APPROVED THEN TRUE
       ELSE IF last'.op = "validate_completion" /\ last'.result = APPROVED THEN FALSE
       ELSE log_started
  /\ review_pending' =
       IF last'.op = "validate_completion" /\ last'.result = PENDING THEN TRUE
       ELSE IF last'.op = "set_current_task" /\ last'.result = APPROVED THEN FALSE
       ELSE IF last'.op = "validate_completion" /\ last'.result = APPROVED THEN FALSE
       ELSE review_pending

(***************************************************************************)
(* TaskSystemEnforcer.                                                     *)
(***************************************************************************)
\* __init__: an enforcer on an initialised project
Init ==
  /\ doc \in InitialDocuments
  /\ current_task = NoTask
  /\ work_log_active = FALSE
  /\ validation_history = <<>>
  /\ last = Call("__init__", "", "", Message("", <<>>))
  /\ selected = <<>>
  /\ log_started = FALSE
  /\ review_pending = FALSE
  /\ file = "json"
  /\ modules = [task_enforcer |-> "enforcer", llm_guard |-> "unbound"]
  /\ peers = [i \in Instances |-> NewInstance]
  /\ guard = NoGuard
  /\ wrapped = NotCalled

\* load_session_state with defaults for a file it cannot read
load_session_state_raises_never == "None"

\* the exception load_session_state raises: FileNotFoundError for a missing
\* file (line 47), json.load's error for a file that does not parse (line 51)
load_session_state_raises ==
  IF file = "absent" THEN "FileNotFoundError"
  ELSE IF file = "corrupt" THEN "JSONDecodeError"
  ELSE "None"

\* the document load_session_state returns when it raises nothing
load_session_state == doc

get_active_tasks == Get(load_session_state, "active_tasks", <<>>)

force_task_selection ==
  LET active_tasks == get_active_tasks IN
  IF active_tasks = <<>>
  THEN Message("no_active_tasks", <<>>)
  ELSE Message("task_selection_required", active_tasks)

high_risk_keywords == {"deploy", "security", "auth", "database", "kubernetes", "production"}
medium_risk_keywords == {"implement", "refactor", "api", "service", "docker"}

\* _assess_task_risk with the test of line 109 before the test of line 107
_assess_task_risk_medium_first(task_id) ==
  LET task_lower == Lower(Chars[task_id]) IN
  IF \E keyword \in medium_risk_keywords : Contains(task_lower, Chars[keyword])
  THEN MEDIUM
  ELSE IF \E keyword \in high_risk_keywords : Contains(task_lower, Chars[keyword])
       THEN HIGH
       ELSE LOW

_assess_task_risk(task_id) ==
  LET task_lower == Lower(Chars[task_id]) IN
  IF \E keyword \in high_risk_keywords : Contains(task_lower, Chars[keyword])
  THEN HIGH
  ELSE IF \E keyword \in medium_risk_keywords : Contains(task_lower, Chars[keyword])
       THEN MEDIUM
       ELSE LOW

\* _assess_task_risk tabulated over the identifiers of the model
risk_level_of == [task_id \in TaskIds \cup UnlistedIds |-> _assess_task_risk(task_id)]

\* set_current_task without the membership test of line 86
set_current_task_unchecked(task_id) ==
  /\ current_task' = << [id |-> task_id, status |-> "active",
                         risk_level |-> risk_level_of[task_id]] >>
  /\ last' = Call("set_current_task", task_id, APPROVED, Message("", <<>>))
  /\ UNCHANGED <<doc, work_log_active, validation_history>>
  /\ Observe

\* set_current_task classifying only the first task selected and keeping
\* that tier for the tasks selected after it
set_current_task_keeps_tier(task_id) ==
  /\ IF task_id \notin Range(get_active_tasks)
     THEN /\ last' = Call("set_current_task", task_id, BLOCKED, Message("", <<>>))
          /\ UNCHANGED current_task
     ELSE /\ current_task' = << [id |-> task_id, status |-> "active",
                                 risk_level |-> IF current_task = NoTask
                                                THEN risk_level_of[task_id]
                                                ELSE current_task[1].risk_level] >>
          /\ last' = Call("set_current_task", task_id, APPROVED, Message("", <<>>))
  /\ UNCHANGED <<doc, work_log_active, validation_history>>
  /\ Observe

set_current_task(task_id) ==
  LET active_tasks == get_active_tasks IN
  /\ IF load_session_state_raises # "None"
     THEN /\ last' = Call("set_current_task", task_id, load_session_state_raises,
                          Message("", <<>>))
          /\ UNCHANGED current_task
     ELSE IF task_id \notin Range(active_tasks)
     THEN /\ last' = Call("set_current_task", task_id, BLOCKED, Message("", <<>>))
          /\ UNCHANGED current_task
     ELSE /\ current_task' = << [id |-> task_id, status |-> "active",
                                 risk_level |-> risk_level_of[task_id]] >>
          /\ last' = Call("set_current_task", task_id, APPROVED, Message("", <<>>))
  /\ UNCHANGED <<doc, work_log_active, validation_history>>
  /\ Observe

require_work_log ==
  IF current_task = NoTask
  THEN force_task_selection
  ELSE IF work_log_active
       THEN Message("work_log_active", <<>>)
       ELSE Message("work_log_required", <<current_task[1].id>>)

\* start_work_log without the test of line 184
start_work_log_unchecked ==
  /\ work_log_active' = TRUE
  /\ last' = Call("start_work_log", "", APPROVED, Message("", <<>>))
  /\ UNCHANGED <<doc, current_task, validation_history>>
  /\ Observe

start_work_log ==
  /\ IF current_task = NoTask
     THEN /\ last' = Call("start_work_log", "", BLOCKED, Message("", <<>>))
          /\ UNCHANGED work_log_active
     ELSE /\ work_log_active' = TRUE
          /\ last' = Call("start_work_log", "", APPROVED, Message("", <<>>))
  /\ UNCHANGED <<doc, current_task, validation_history>>
  /\ Observe

_extract_task_keywords(task_id) ==
  LET words == Split(Replace(Lower(Chars[task_id]), ":", " ")) IN
  SelectSeq(words, LAMBDA word : Len(word) > MinKeywordLen)

\* the length test without strip()
insufficient_justification_unstripped(justification) ==
  Len(Chars[justification]) < MinJustificationLen

\* len(justification.strip()) < 20
insufficient_justification(justification) ==
  Len(Strip(Chars[justification])) < MinJustificationLen

\* all(...) in the place of any(...)
all_keywords_in_justification(task_id, justification) ==
  LET task_keywords == _extract_task_keywords(task_id)
      justification_lower == Lower(Chars[justification])
  IN  \A i \in 1..Len(task_keywords) : Contains(justification_lower, task_keywords[i])

\* any(keyword in justification_lower for keyword in task_keywords)
any_keyword_in_justification(task_id, justification) ==
  LET task_keywords == _extract_task_keywords(task_id)
      justification_lower == Lower(Chars[justification])
  IN  \E i \in 1..Len(task_keywords) : Contains(justification_lower, task_keywords[i])

\* the two tests tabulated over the identifiers and justifications of the model
insufficient_of == [justification \in Justifications |-> insufficient_justification(justification)]
any_keyword_of ==
  [task_id \in TaskIds, justification \in Justifications |->
     any_keyword_in_justification(task_id, justification)]

\* validate_action without the work-log gate of lines 196-197
validate_action_no_log_gate(action_description, justification) ==
  /\ current_task # NoTask => Len(validation_history) < MaxHistory
  /\ IF current_task = NoTask
     THEN /\ last' = Call("validate_action", "", BLOCKED, force_task_selection)
          /\ UNCHANGED validation_history
     ELSE LET action_log == [task_id |-> current_task[1].id,
                             action |-> action_description,
                             justification |-> justification,
                             status |-> "proposed"]
          IN  /\ validation_history' = Append(validation_history, action_log)
              /\ IF insufficient_of[justification]
                 THEN last' = Call("validate_action", "", REJECTED,
                                   Message("insufficient_justification", <<>>))
                 ELSE IF ~any_keyword_of[current_task[1].id, justification]
                 THEN last' = Call("validate_action", "", REJECTED,
                                   Message("no_connection_to_task", <<current_task[1].id>>))
                 ELSE last' = Call("validate_action", "", APPROVED, Message("action_approved", <<>>))
  /\ UNCHANGED <<doc, current_task, work_log_active>>
  /\ Observe

\* validate_action answering REJECTED when no task is selected
validate_action_no_task_rejected(action_description, justification) ==
  /\ (current_task # NoTask /\ work_log_active) => Len(validation_history) < MaxHistory
  /\ IF current_task = NoTask
     THEN /\ last' = Call("validate_action", "", REJECTED, force_task_selection)
          /\ UNCHANGED validation_history
     ELSE IF ~work_log_active
     THEN /\ last' = Call("validate_action", "", BLOCKED, require_work_log)
          /\ UNCHANGED validation_history
     ELSE LET action_log == [task_id |-> current_task[1].id,
                             action |-> action_description,
                             justification |-> justification,
                             status |-> "proposed"]
          IN  /\ validation_history' = Append(validation_history, action_log)
              /\ IF insufficient_of[justification]
                 THEN last' = Call("validate_action", "", REJECTED,
                                   Message("insufficient_justification", <<>>))
                 ELSE IF ~any_keyword_of[current_task[1].id, justification]
                 THEN last' = Call("validate_action", "", REJECTED,
                                   Message("no_connection_to_task", <<current_task[1].id>>))
                 ELSE last' = Call("validate_action", "", APPROVED, Message("action_approved", <<>>))
  /\ UNCHANGED <<doc, current_task, work_log_active>>
  /\ Observe

\* validate_action appending its record only once the justification passed
\* (line 208 after line 219)
validate_action_logs_approved_only(action_description, justification) ==
  /\ (current_task # NoTask /\ work_log_active) => Len(validation_history) < MaxHistory
  /\ IF current_task = NoTask
     THEN /\ last' = Call("validate_action", "", BLOCKED, force_task_selection)
          /\ UNCHANGED validation_history
     ELSE IF ~work_log_active
     THEN /\ last' = Call("validate_action", "", BLOCKED, require_work_log)
          /\ UNCHANGED validation_history
     ELSE LET action_log == [task_id |-> current_task[1].id,
                             action |-> action_description,
                             justification |-> justification,
                             status |-> "proposed"]
          IN  IF insufficient_of[justification]
              THEN /\ last' = Call("validate_action", "", REJECTED,
                                   Message("insufficient_justification", <<>>))
                   /\ UNCHANGED validation_history
              ELSE IF ~any_keyword_of[current_task[1].id, justification]
              THEN /\ last' = Call("validate_action", "", REJECTED,
                                   Message("no_connection_to_task", <<current_task[1].id>>))
                   /\ UNCHANGED validation_history
              ELSE /\ last' = Call("validate_action", "", APPROVED, Message("action_approved", <<>>))
                   /\ validation_history' = Append(validation_history, action_log)
  /\ UNCHANGED <<doc, current_task, work_log_active>>
  /\ Observe

\* validate_action assigning the new record over the list instead of
\* appending it (line 208)
validate_action_overwrites_history(action_description, justification) ==
  /\ (current_task # NoTask /\ work_log_active) => Len(validation_history) < MaxHistory
  /\ IF current_task = NoTask
     THEN /\ last' = Call("validate_action", "", BLOCKED, force_task_selection)
          /\ UNCHANGED validation_history
     ELSE IF ~work_log_active
     THEN /\ last' = Call("validate_action", "", BLOCKED, require_work_log)
          /\ UNCHANGED validation_history
     ELSE LET action_log == [task_id |-> current_task[1].id,
                             action |-> action_description,
                             justification |-> justification,
                             status |-> "proposed"]
          IN  /\ validation_history' = <<action_log>>
              /\ IF insufficient_of[justification]
                 THEN last' = Call("validate_action", "", REJECTED,
                                   Message("insufficient_justification", <<>>))
                 ELSE IF ~any_keyword_of[current_task[1].id, justification]
                 THEN last' = Call("validate_action", "", REJECTED,
                                   Message("no_connection_to_task", <<current_task[1].id>>))
                 ELSE last' = Call("validate_action", "", APPROVED, Message("action_approved", <<>>))
  /\ UNCHANGED <<doc, current_task, work_log_active>>
  /\ Observe

\* validate_action refusing a task's action once validation_history holds an
\* attempt under that task
validate_action_limits_attempts(action_description, justification) ==
  /\ (current_task # NoTask /\ work_log_active) => Len(validation_history) < MaxHistory
  /\ IF current_task = NoTask
     THEN /\ last' = Call("validate_action", "", BLOCKED, force_task_selection)
          /\ UNCHANGED validation_history
     ELSE IF ~work_log_active
     THEN /\ last' = Call("validate_action", "", BLOCKED, require_work_log)
          /\ UNCHANGED validation_history
     ELSE LET action_log == [task_id |-> current_task[1].id,
                             action |-> action_description,
                             justification |-> justification,
                             status |-> "proposed"]
          IN  /\ validation_history' = Append(validation_history, action_log)
              /\ IF \/ insufficient_of[justification]
                    \/ \E n \in 1..Len(validation_history) :
                         validation_history[n].task_id = current_task[1].id
                 THEN last' = Call("validate_action", "", REJECTED,
                                   Message("insufficient_justification", <<>>))
                 ELSE IF ~any_keyword_of[current_task[1].id, justification]
                 THEN last' = Call("validate_action", "", REJECTED,
                                   Message("no_connection_to_task", <<current_task[1].id>>))
                 ELSE last' = Call("validate_action", "", APPROVED, Message("action_approved", <<>>))
  /\ UNCHANGED <<doc, current_task, work_log_active>>
  /\ Observe

validate_action(action_description, justification) ==
  /\ (current_task # NoTask /\ work_log_active) => Len(validation_history) < MaxHistory
  /\ IF current_task = NoTask /\ load_session_state_raises # "None"
     THEN /\ last' = Call("validate_action", "", load_session_state_raises, Message("", <<>>))
          /\ UNCHANGED validation_history
     ELSE IF current_task = NoTask
     THEN /\ last' = Call("validate_action", "", BLOCKED, force_task_selection)
          /\ UNCHANGED validation_history
     ELSE IF ~work_log_active
     THEN /\ last' = Call("validate_action", "", BLOCKED, require_work_log)
          /\ UNCHANGED validation_history
     ELSE LET action_log == [task_id |-> current_task[1].id,
                             action |-> action_description,
                             justification |-> justification,
                             status |-> "proposed"]
          IN  /\ validation_history' = Append(validation_history, action_log)
              /\ IF insufficient_of[justification]
                 THEN last' = Call("validate_action", "", REJECTED,
                                   Message("insufficient_justification", <<>>))
                 ELSE IF ~any_keyword_of[current_task[1].id, justification]
                 THEN last' = Call("validate_action", "", REJECTED,
                                   Message("no_connection_to_task", <<current_task[1].id>>))
                 ELSE last' = Call("validate_action", "", APPROVED, Message("action_approved", <<>>))
  /\ UNCHANGED <<doc, current_task, work_log_active>>
  /\ Observe

_generate_validation_commands(task_id) ==
  LET task_lower == Lower(Chars[task_id]) IN
  <<"git status --porcelain", "py_compile">>
    \o (IF Contains(task_lower, Chars["docker"]) THEN <<"docker-compose config">> ELSE <<>>)
    \o (IF Contains(task_lower, Chars["test"]) THEN <<"pytest">> ELSE <<>>)
    \o (IF Contains(task_lower, Chars["kubernetes"]) \/ Contains(task_lower, Chars["k8s"])
        THEN <<"kubectl apply --dry-run">> ELSE <<>>)

\* _generate_validation_commands tabulated over the identifiers of the model
validation_commands_of == [task_id \in TaskIds |-> _generate_validation_commands(task_id)]

\* the requirement descriptions, in the insertion order of the dict
base_requirements ==
  << [key |-> "file_evidence", desc |-> "List all files created/modified with ls -la"],
     [key |-> "functional_test", desc |-> "Provide command that demonstrates functionality"],
     [key |-> "error_check", desc |-> "Show no errors in logs or output"] >>

medium_requirements ==
  << [key |-> "integration_test", desc |-> "Test integration with existing system"],
     [key |-> "syntax_validation", desc |-> "Validate syntax of all code changes"] >>

high_requirements ==
  << [key |-> "comprehensive_testing", desc |-> "Full test suite execution"],
     [key |-> "security_check", desc |-> "Security implications reviewed"],
     [key |-> "human_review_required", desc |-> "Human approval needed for completion"] >>

\* the requirements dict built for a risk level (lines 235-252)
requirements_for(risk_level) ==
  base_requirements
    \o (IF risk_level = MEDIUM THEN medium_requirements ELSE <<>>)
    \o (IF risk_level = HIGH THEN high_requirements ELSE <<>>)

\* requirements_for tabulated over the risk levels
requirements_of == [risk_level \in {LOW, MEDIUM, HIGH} |-> requirements_for(risk_level)]

require_completion_proof ==
  IF current_task = NoTask
  THEN [error |-> "No active task"]
  ELSE LET risk_level == current_task[1].risk_level IN
       [task_id |-> current_task[1].id,
        risk_level |-> risk_level,
        requirements |-> requirements_of[risk_level],
        validation_commands |-> validation_commands_of[current_task[1].id]]

\* lines 311-313 appending the identifier whether or not it is listed
session_after_move_unchecked(session, id) ==
  ("active_tasks" :> RemoveFirst(Get(session, "active_tasks", <<>>), id))
    @@ ("completed_tasks" :> Append(Get(session, "completed_tasks", <<>>), id))
    @@ session

\* the loaded document after lines 310-313: the first occurrence of the
\* identifier leaves active_tasks and the identifier is appended to
\* completed_tasks, when active_tasks lists it
session_after_move(session, id) ==
  IF id \in Range(Get(session, "active_tasks", <<>>))
  THEN ("active_tasks" :> RemoveFirst(session["active_tasks"], id))
         @@ ("completed_tasks" :> Append(Get(session, "completed_tasks", <<>>), id))
         @@ session
  ELSE session

\* _mark_task_complete writing a document of the two task lists only
_mark_task_complete_two_keys_only ==
  LET session == load_session_state
      id == current_task[1].id
  IN  /\ doc' = IF id \in Range(Get(session, "active_tasks", <<>>))
                THEN ("active_tasks" :> RemoveFirst(session["active_tasks"], id))
                       @@ ("completed_tasks" :>
                             Append(Get(session, "completed_tasks", <<>>), id))
                ELSE ("active_tasks" :> Get(session, "active_tasks", <<>>))
                       @@ ("completed_tasks" :> Get(session, "completed_tasks", <<>>))
      /\ current_task' = NoTask
      /\ work_log_active' = FALSE

\* _mark_task_complete without the reset of lines 320-321
_mark_task_complete_keeps_task ==
  /\ doc' = session_after_move(load_session_state, current_task[1].id)
  /\ UNCHANGED <<current_task, work_log_active>>

\* loads the document, moves the identifier, writes the document back and
\* resets the session
_mark_task_complete ==
  LET session == load_session_state
      id == current_task[1].id
  IN  /\ doc' = session_after_move(session, id)
      /\ current_task' = NoTask
      /\ work_log_active' = FALSE

\* the loop of lines 289-292 testing only "req_key not in proof_data"
missing_proof_absent_only(requirements, proof_data) ==
  LET missing == SelectSeq(requirements, LAMBDA req : req.key \notin DOMAIN proof_data)
  IN  [i \in 1..Len(missing) |-> missing[i].desc]

\* the descriptions of the requirements the proof does not address, in order
missing_proof(requirements, proof_data) ==
  LET missing == SelectSeq(requirements,
                   LAMBDA req : \/ req.key \notin DOMAIN proof_data
                                \/ ~Truthy(proof_data[req.key]))
  IN  [i \in 1..Len(missing) |-> missing[i].desc]

\* missing_proof tabulated over the risk levels and proof packages of the model
missing_proof_of ==
  [risk_level \in {LOW, MEDIUM, HIGH}, proof_data \in ProofPackages |->
     missing_proof(requirements_of[risk_level], proof_data)]

\* validate_completion without the HIGH branch of lines 298-300
validate_completion_no_review(proof_data) ==
  /\ IF current_task = NoTask
     THEN /\ last' = Call("validate_completion", "", BLOCKED,
                          Message("no_active_task", <<>>))
          /\ UNCHANGED <<doc, current_task, work_log_active>>
     ELSE LET missing == missing_proof_of[require_completion_proof.risk_level, proof_data]
          IN  IF missing # <<>>
              THEN /\ last' = Call("validate_completion", "", REJECTED,
                                   Message("missing_proof", missing))
                   /\ UNCHANGED <<doc, current_task, work_log_active>>
              ELSE /\ _mark_task_complete
                   /\ last' = Call("validate_completion", "", APPROVED,
                                   Message("completion_approved", <<>>))
  /\ UNCHANGED validation_history
  /\ Observe

validate_completion(proof_data) ==
  /\ IF current_task = NoTask
     THEN /\ last' = Call("validate_completion", "", BLOCKED,
                          Message("no_active_task", <<>>))
          /\ UNCHANGED <<doc, current_task, work_log_active>>
     ELSE LET missing == missing_proof_of[require_completion_proof.risk_level, proof_data]
          IN  IF missing # <<>>
              THEN /\ last' = Call("validate_completion", "", REJECTED,
                                   Message("missing_proof", missing))
                   /\ UNCHANGED <<doc, current_task, work_log_active>>
              ELSE IF current_task[1].risk_level = HIGH
              THEN /\ last' = Call("validate_completion", "", PENDING,
                                   Message("human_approval_required", <<>>))
                   /\ UNCHANGED <<doc, current_task, work_log_active>>
              ELSE IF load_session_state_raises # "None"
              THEN /\ last' = Call("validate_completion", "", load_session_state_raises,
                                   Message("", <<>>))
                   /\ UNCHANGED <<doc, current_task, work_log_active>>
              ELSE /\ _mark_task_complete
                   /\ last' = Call("validate_completion", "", APPROVED,
                                   Message("completion_approved", <<>>))
  /\ UNCHANGED validation_history
  /\ Observe

(***************************************************************************)
(* The enforcer's operations, called in any order with any inputs.         *)
(***************************************************************************)
SetCurrentTask ==
  /\ \E task_id \in TaskIds : set_current_task(task_id)
  /\ UNCHANGED <<layer_vars, env_vars>>

StartWorkLog == start_work_log /\ UNCHANGED <<layer_vars, env_vars>>

ValidateAction ==
  /\ \E action_description \in ActionDescriptions, justification \in Justifications :
       validate_action(action_description, justification)
  /\ UNCHANGED <<layer_vars, env_vars>>

ValidateCompletion ==
  /\ \E proof_data \in ProofPackages : validate_completion(proof_data)
  /\ UNCHANGED <<layer_vars, env_vars>>

Next ==
  \/ SetCurrentTask
  \/ StartWorkLog
  \/ ValidateAction
  \/ ValidateCompletion

Spec == Init /\ [][Next]_vars


(***************************************************************************)
(* llm_guard.LLMActionGuard: a with statement around a unit of work.       *)
(***************************************************************************)
\* justifications given to a guard: one of 30 characters naming "auth" and
\* "implementing", one of 19 characters once stripped
GuardJustifications == {"Implementing login for T1 auth", "  refactor api module \t\n"}

\* the description EnforcedClaudeCode gives the guard around read_file
\* ("Claude Code: " + func.__name__); guards built directly take it too
GuardActionDescriptions == {"Claude Code: read_file"}

\* how the guarded unit can end: by returning, or by raising an exception
UnitOutcomes == {"None", "ValueError"}

\* the with statement was left: the guard object is dropped, the outcome is
\* what its caller sees
Left(executed, unit_raised, exit_returned, raised) ==
  [phase |-> "left", action_description |-> "", justification |-> "", constructed_for |-> "",
   executed |-> executed, unit_raised |-> unit_raised, exit_returned |-> exit_returned,
   raised |-> raised]

\* LLMActionGuard.__init__; constructed_for observes the task selected then
LLMActionGuard(action_description, justification) ==
  /\ guard.phase \in {"none", "left"}
  /\ guard' = [phase |-> "constructed",
               action_description |-> action_description,
               justification |-> justification,
               constructed_for |-> IF current_task = NoTask THEN "" ELSE current_task[1].id,
               executed |-> FALSE, unit_raised |-> "None", exit_returned |-> <<>>,
               raised |-> "None"]
  /\ UNCHANGED <<doc, session_vars, last, observer_vars, wrapped>>

\* LLMActionGuard.__enter__ with every gate passing whatever the enforcer holds
__enter___ungated ==
  /\ guard.phase = "constructed"
  /\ guard' = [guard EXCEPT !.phase = "entered", !.executed = TRUE]
  /\ UNCHANGED <<doc, session_vars, last, observer_vars, wrapped>>

\* LLMActionGuard.__enter__ with the task gate decided when the guard was built
__enter___gated_at_construction ==
  /\ guard.phase = "constructed"
  /\ IF guard.constructed_for = "" \/ current_task = NoTask
     THEN /\ guard' = Left(FALSE, "None", <<>>, "TaskViolationException")
          /\ UNCHANGED <<doc, session_vars, last, observer_vars>>
     ELSE IF ~work_log_active
     THEN /\ guard' = Left(FALSE, "None", <<>>, "TaskViolationException")
          /\ UNCHANGED <<doc, session_vars, last, observer_vars>>
     ELSE /\ validate_action(guard.action_description, guard.justification)
          /\ guard' = IF last'.result # APPROVED
                      THEN Left(FALSE, "None", <<>>, "TaskViolationException")
                      ELSE [guard EXCEPT !.phase = "entered", !.executed = TRUE]
  /\ UNCHANGED wrapped

\* LLMActionGuard.__enter__: an exception it raises ends the with statement
\* before the unit, and __exit__ is not called
__enter__ ==
  /\ guard.phase = "constructed"
  /\ IF current_task = NoTask /\ load_session_state_raises # "None"
     THEN /\ guard' = Left(FALSE, "None", <<>>, load_session_state_raises)
          /\ UNCHANGED <<doc, session_vars, last, observer_vars>>
     ELSE IF current_task = NoTask
     THEN /\ guard' = Left(FALSE, "None", <<>>, "TaskViolationException")
          /\ UNCHANGED <<doc, session_vars, last, observer_vars>>
     ELSE IF ~work_log_active
     THEN /\ guard' = Left(FALSE, "None", <<>>, "TaskViolationException")
          /\ UNCHANGED <<doc, session_vars, last, observer_vars>>
     ELSE /\ validate_action(guard.action_description, guard.justification)
          /\ guard' = IF last'.result # APPROVED
                      THEN Left(FALSE, "None", <<>>, "TaskViolationException")
                      ELSE [guard EXCEPT !.phase = "entered", !.executed = TRUE]
  /\ UNCHANGED wrapped

\* LLMActionGuard.__exit__ returning a true value for an exception
__exit___suppressing(exc_type) == exc_type # "None"

\* LLMActionGuard.__exit__: the value it returns
__exit__(exc_type) == FALSE

\* the end of the with statement: the unit ends with exc_type, __exit__ is
\* called with it, and the exception goes on to the caller unless __exit__
\* returned a true value
with_statement_ends(exc_type) ==
  /\ guard.phase = "entered"
  /\ guard' = Left(TRUE, exc_type, <<__exit__(exc_type)>>,
                   IF exc_type # "None" /\ ~__exit__(exc_type) THEN exc_type ELSE "None")
  /\ UNCHANGED <<doc, session_vars, last, observer_vars, wrapped>>

\* EnforcedClaudeCode.require_task_justification around read_file: the
\* justification keyword is None ("" here, as falsy) or a text
EnforcedClaudeCode_require_task_justification(justification) ==
  IF justification = ""
  THEN /\ guard.phase \in {"none", "left"}
       /\ guard' = Left(FALSE, "None", <<>>, "TaskViolationException")
       /\ UNCHANGED <<doc, session_vars, last, observer_vars, wrapped>>
  ELSE LLMActionGuard("Claude Code: read_file", justification)

(***************************************************************************)
(* Guarded units of work, between the enforcer's operations.               *)
(***************************************************************************)
GuardConstruct ==
  /\ \E action_description \in GuardActionDescriptions, justification \in GuardJustifications :
       LLMActionGuard(action_description, justification)
  /\ UNCHANGED env_vars

EnforcedCall ==
  /\ \E justification \in GuardJustifications \cup {""} :
       EnforcedClaudeCode_require_task_justification(justification)
  /\ UNCHANGED env_vars

GuardEnter == __enter__ /\ UNCHANGED env_vars

GuardExit ==
  /\ \E exc_type \in UnitOutcomes : with_statement_ends(exc_type)
  /\ UNCHANGED env_vars

NextGuard ==
  \/ SetCurrentTask
  \/ StartWorkLog
  \/ ValidateCompletion
  \/ GuardConstruct
  \/ EnforcedCall
  \/ GuardEnter
  \/ GuardExit

SpecGuard == Init /\ [][NextGuard]_vars

(***************************************************************************)
(* llm_guard: functions wrapped for completion.                            *)
(***************************************************************************)
\* how a call of a wrapped function ended: whether the function itself ran,
\* the exception the caller sees, the dict the caller gets
Ended(op, executed, raised, returned) ==
  [op |-> op, executed |-> executed, raised |-> raised, returned |-> returned]

\* the wrapper of the require_completion_proof decorator, called with the
\* keyword proof_data (EmptyDict when it is not given)
require_completion_proof_wrapper(proof_data) ==
  /\ IF proof_data = EmptyDict
     THEN /\ wrapped' = Ended("require_completion_proof", FALSE, "ProofRequiredException", <<>>)
          /\ UNCHANGED <<doc, session_vars, last, observer_vars>>
     ELSE /\ validate_completion(proof_data)
          /\ wrapped' =
               IF last'.result = REJECTED
               THEN Ended("require_completion_proof", FALSE, "ProofRequiredException", <<>>)
               ELSE IF last'.result = PENDING
               THEN Ended("require_completion_proof", FALSE, "None",
                          ("status" :> Str("pending_human_review")))
               ELSE IF last'.result \notin {APPROVED, BLOCKED}
               THEN Ended("require_completion_proof", FALSE, last'.result, <<>>)
               ELSE Ended("require_completion_proof", TRUE, "None", <<>>)
  /\ UNCHANGED guard

enforce_completion_standards(proof_package) ==
  /\ IF current_task = NoTask
     THEN /\ wrapped' = Ended("enforce_completion_standards", FALSE, "None",
                              ("error" :> Str("No active task to complete")))
          /\ UNCHANGED <<doc, session_vars, last, observer_vars>>
     ELSE /\ validate_completion(proof_package)
          /\ wrapped' = IF last'.result \notin {APPROVED, REJECTED, PENDING, BLOCKED}
                        THEN Ended("enforce_completion_standards", FALSE, last'.result, <<>>)
                        ELSE
                        Ended("enforce_completion_standards", FALSE, "None",
                              ("validation_result" :> Str(last'.result))
                                @@ ("requires_human_review" :> PyBool(last'.result = PENDING))
                                @@ ("approved" :> PyBool(last'.result = APPROVED)))
  /\ UNCHANGED guard

(***************************************************************************)
(* Completions claimed through the wrappers.                               *)
(***************************************************************************)
CompleteWrapped ==
  /\ \E proof_data \in ProofPackages : require_completion_proof_wrapper(proof_data)
  /\ UNCHANGED env_vars

EnforceCompletionStandards ==
  /\ \E proof_package \in ProofPackages : enforce_completion_standards(proof_package)
  /\ UNCHANGED env_vars

NextCompletion ==
  \/ SetCurrentTask
  \/ StartWorkLog
  \/ CompleteWrapped
  \/ EnforceCompletionStandards

SpecCompletion == Init /\ [][NextCompletion]_vars

(***************************************************************************)
(* Reads of the enforcer, and the file the registry is kept in.            *)
(***************************************************************************)
\* a call of get_active_tasks
get_active_tasks_call ==
  /\ last' = IF load_session_state_raises # "None"
             THEN Call("get_active_tasks", "", load_session_state_raises, Message("", <<>>))
             ELSE Call("get_active_tasks", "", "returned",
                       Message("active_tasks", get_active_tasks))
  /\ UNCHANGED <<doc, session_vars>>
  /\ Observe

\* a call of require_completion_proof: last keeps the error, or the risk
\* level and the required keys
require_completion_proof_call ==
  /\ last' = LET returned == require_completion_proof IN
             IF "error" \in DOMAIN returned
             THEN Call("require_completion_proof", "", "error", Message(returned.error, <<>>))
             ELSE Call("require_completion_proof", returned.task_id, "requirements",
                       Message(returned.risk_level,
                               [i \in 1..Len(returned.requirements) |->
                                  returned.requirements[i].key]))
  /\ UNCHANGED <<doc, session_vars>>
  /\ Observe

\* get_status ending the work log it reports
get_status_resetting ==
  /\ last' = Call("get_status", "", "returned", Message("status", <<>>))
  /\ work_log_active' = FALSE
  /\ UNCHANGED <<doc, current_task, validation_history>>
  /\ Observe

\* get_status: last keeps the identifier of current_task, work_log_active and
\* the two counts; the count of active tasks loads the document
get_status ==
  /\ last' = IF load_session_state_raises # "None"
             THEN Call("get_status", "", load_session_state_raises, Message("", <<>>))
             ELSE Call("get_status",
                       IF current_task = NoTask THEN "" ELSE current_task[1].id,
                       "returned",
                       Message("status", <<ToString(work_log_active),
                                           ToString(Len(get_active_tasks)),
                                           ToString(Len(validation_history))>>))
  /\ UNCHANGED <<doc, session_vars>>
  /\ Observe

(***************************************************************************)
(* The enforcer on a file that can be deleted or damaged under it.         *)
(***************************************************************************)
GetActiveTasks == get_active_tasks_call /\ UNCHANGED <<layer_vars, env_vars>>

RequireCompletionProof == require_completion_proof_call /\ UNCHANGED <<layer_vars, env_vars>>

GetStatus == get_status /\ UNCHANGED <<layer_vars, env_vars>>

\* validate_action with the justifications given to guards
ValidateActionBriefly ==
  /\ \E action_description \in ActionDescriptions, justification \in GuardJustifications :
       validate_action(action_description, justification)
  /\ UNCHANGED <<layer_vars, env_vars>>

\* SESSION_STATE.json is deleted, or overwritten with text that is not JSON
DocumentLost ==
  /\ file = "json"
  /\ file' \in {"absent", "corrupt"}
  /\ UNCHANGED <<doc, session_vars, last, observer_vars, layer_vars, modules, peers>>

NextStorage ==
  \/ SetCurrentTask
  \/ StartWorkLog
  \/ ValidateActionBriefly
  \/ ValidateCompletion
  \/ GetActiveTasks
  \/ RequireCompletionProof
  \/ GetStatus
  \/ DocumentLost

SpecStorage == Init /\ [][NextStorage]_vars

(***************************************************************************)
(* The enforcer singleton and llm_guard.reset_task_state.                  *)
(***************************************************************************)
\* get_enforcer builds a new TaskSystemEnforcer when task_enforcer's global
\* _enforcer_instance is None, and returns the one it holds otherwise
get_enforcer_creates(globals) == globals.task_enforcer = "None"

\* reset_task_state: "global _enforcer_instance" in llm_guard binds the name
\* in llm_guard's namespace (get_enforcer was imported by name, the global of
\* task_enforcer was not); the session is the one the next get_enforcer()
\* returns
reset_task_state ==
  /\ modules' = [modules EXCEPT !.llm_guard = "None"]
  /\ current_task' = IF get_enforcer_creates(modules') THEN NoTask ELSE current_task
  /\ work_log_active' = IF get_enforcer_creates(modules') THEN FALSE ELSE work_log_active
  /\ validation_history' = IF get_enforcer_creates(modules') THEN <<>> ELSE validation_history
  /\ last' = Call("reset_task_state", "", "returned", Message("task_state_reset", <<>>))
  /\ UNCHANGED doc
  /\ Observe

ResetTaskState == reset_task_state /\ UNCHANGED <<file, peers, layer_vars>>

NextReset ==
  \/ SetCurrentTask
  \/ StartWorkLog
  \/ ValidateCompletion
  \/ GuardConstruct
  \/ GuardEnter
  \/ GuardExit
  \/ ResetTaskState

SpecReset == Init /\ [][NextReset]_vars

(***************************************************************************)
(* Several enforcer instances on one registry document.  The document is   *)
(* read and written without a lock, so between the json.load of one        *)
(* instance's _mark_task_complete and its json.dump another instance may   *)
(* read or write the file.                                                 *)
(***************************************************************************)
\* set_current_task in instance i
peer_set_current_task(i, task_id) ==
  /\ peers[i].pc = "idle"
  /\ peers' = [peers EXCEPT ![i] =
       IF task_id \notin Range(get_active_tasks)
       THEN [@ EXCEPT !.returned = Call("set_current_task", task_id, BLOCKED,
                                        Message("", <<>>))]
       ELSE [@ EXCEPT !.current_task = << [id |-> task_id, status |-> "active",
                                           risk_level |-> risk_level_of[task_id]] >>,
                      !.returned = Call("set_current_task", task_id, APPROVED,
                                        Message("", <<>>))]]
  /\ UNCHANGED doc

\* validate_completion in instance i up to the load of line 308: it returns
\* on lines 283-300, or goes on into _mark_task_complete and loads
peer_validate_completion_loads(i, proof_data) ==
  /\ peers[i].pc = "idle"
  /\ LET self == peers[i]
         returns(result, message) ==
           [self EXCEPT !.returned = Call("validate_completion", "", result, message)]
     IN  peers' = [peers EXCEPT ![i] =
           IF self.current_task = NoTask
           THEN returns(BLOCKED, Message("no_active_task", <<>>))
           ELSE LET missing == missing_proof_of[self.current_task[1].risk_level, proof_data]
                IN  IF missing # <<>>
                    THEN returns(REJECTED, Message("missing_proof", missing))
                    ELSE IF self.current_task[1].risk_level = HIGH
                    THEN returns(PENDING, Message("human_approval_required", <<>>))
                    ELSE [self EXCEPT !.pc = "loaded", !.session = load_session_state]]
  /\ UNCHANGED doc

\* the rest of the call loading the document again before it writes
peer_validate_completion_writes_reloading(i) ==
  /\ peers[i].pc = "loaded"
  /\ doc' = session_after_move(load_session_state, peers[i].current_task[1].id)
  /\ peers' = [peers EXCEPT ![i] =
       [@ EXCEPT !.pc = "idle", !.current_task = NoTask,
                 !.session = load_session_state,
                 !.completed = peers[i].current_task[1].id,
                 !.returned = Call("validate_completion", "", APPROVED,
                                   Message("completion_approved", <<>>))]]

\* the rest of the call: lines 310-323 on the session loaded, the whole
\* document written back, the instance reset, APPROVED returned
peer_validate_completion_writes(i) ==
  /\ peers[i].pc = "loaded"
  /\ doc' = session_after_move(peers[i].session, peers[i].current_task[1].id)
  /\ peers' = [peers EXCEPT ![i] =
       [@ EXCEPT !.pc = "idle", !.current_task = NoTask,
                 !.completed = peers[i].current_task[1].id,
                 !.returned = Call("validate_completion", "", APPROVED,
                                   Message("completion_approved", <<>>))]]

SharedFrame == UNCHANGED <<session_vars, last, observer_vars, layer_vars, file, modules>>

PeerSetCurrentTask ==
  /\ \E i \in Instances, task_id \in TaskIds : peer_set_current_task(i, task_id)
  /\ SharedFrame

PeerValidateCompletionLoads ==
  /\ \E i \in Instances, proof_data \in ProofPackages :
       peer_validate_completion_loads(i, proof_data)
  /\ SharedFrame

PeerValidateCompletionWrites ==
  /\ \E i \in Instances : peer_validate_completion_writes(i)
  /\ SharedFrame

NextShared ==
  \/ PeerSetCurrentTask
  \/ PeerValidateCompletionLoads
  \/ PeerValidateCompletionWrites

SpecShared == Init /\ [][NextShared]_vars

(***************************************************************************)
(* The enforcer asked about actions under several descriptions.            *)
(***************************************************************************)
ValidateActionDescribed ==
  /\ \E action_description \in ActionDescriptions \cup GuardActionDescriptions,
        justification \in GuardJustifications :
       validate_action(action_description, justification)
  /\ UNCHANGED <<layer_vars, env_vars>>

NextActions ==
  \/ SetCurrentTask
  \/ StartWorkLog
  \/ ValidateActionDescribed

SpecActions == Init /\ [][NextActions]_vars
(***************************************************************************)
(* Properties.                                                             *)
(***************************************************************************)
\* the identifiers the registry document lists as active / completed
active_ids == Range(Get(doc, "active_tasks", <<>>))
completed_ids == Range(Get(doc, "completed_tasks", <<>>))

\* the number of times x occurs in the sequence s
Occurrences(s, x) == Cardinality({i \in 1..Len(s) : s[i] = x})

\* C1: every validate_action that returns APPROVED comes after an APPROVED
\* set_current_task of the current task's identifier, which was listed in
\* active_tasks when it was selected, and after an APPROVED start_work_log,
\* with no APPROVED validate_completion since either of them.
C1_ApprovedActionFollowsSelectionAndWorkLog ==
  (last.op = "validate_action" /\ last.result = APPROVED)
    => /\ selected # <<>>
       /\ selected[1].was_active
       /\ current_task # NoTask
       /\ selected[1].id = current_task[1].id
       /\ log_started

\* C1 happens: an action was approved for the task selected last
C1_Witness ==
  /\ last.op = "validate_action"
  /\ last.result = APPROVED
  /\ validation_history # <<>>
  /\ validation_history[Len(validation_history)].task_id = selected[1].id

C4_NoWorkLogBlocksEveryAction ==
  [][ (last'.op = "validate_action" /\ current_task # NoTask /\ ~log_started)
        => \A action_description \in ActionDescriptions, justification \in Justifications :
             validate_action(action_description, justification) => last'.result = BLOCKED
    ]_vars

\* C4 happens: an action was blocked for a selected task whose work log was not started
C4_Witness ==
  /\ last.op = "validate_action"
  /\ last.result = BLOCKED
  /\ current_task # NoTask
  /\ ~log_started
  /\ last.message.kind = "work_log_required"

\* C5 as stated: an APPROVED set_current_task of a new identifier, from no
\* task or from a prior selection, makes that identifier the current task and
\* leaves the work log not active for it.
C5_SelectionEntersTaskSelected ==
  [][ ( /\ last'.op = "set_current_task"
        /\ last'.result = APPROVED
        /\ (current_task = NoTask \/ current_task[1].id # last'.task_id) )
        => /\ current_task' # NoTask
           /\ current_task'[1].id = last'.task_id
           /\ ~work_log_active'
    ]_vars

\* what C6 expects of a call that passes both gates: the result and the kind of message
C6_expected ==
  [task_id \in TaskIds, justification \in Justifications |->
     LET tokens == Range(Split(Replace(Lower(Chars[task_id]), ":", " ")))
     IN  IF Len(Strip(Chars[justification])) < 20
         THEN <<REJECTED, "insufficient_justification">>
         ELSE IF ~ \E token \in tokens :
                     Len(token) > 3 /\ Contains(Lower(Chars[justification]), token)
              THEN <<REJECTED, "no_connection_to_task">>
              ELSE <<APPROVED, "action_approved">>]

\* C6: with a task selected and the work log active, validate_action returns
\* REJECTED when the stripped justification has fewer than 20 characters,
\* otherwise REJECTED when the lower-cased justification contains none of the
\* identifier's lower-cased tokens of more than 3 characters, otherwise
\* APPROVED; and it returns APPROVED in no other case.
C6_ValidateActionDecision ==
  [][ last'.op = "validate_action"
        => /\ (current_task # NoTask /\ work_log_active)
                => \A action_description \in ActionDescriptions,
                      justification \in Justifications :
                     validate_action(action_description, justification)
                       => <<last'.result, last'.message.kind>>
                            = C6_expected[current_task[1].id, justification]
           /\ last'.result = APPROVED => (current_task # NoTask /\ work_log_active)
    ]_vars

\* C6 happens: a justification of 20 characters or more was rejected for naming no token of the task
C6_Witness ==
  /\ last.op = "validate_action"
  /\ last.result = REJECTED
  /\ last.message.kind = "no_connection_to_task"
  /\ validation_history # <<>>
  /\ Len(Strip(Chars[validation_history[Len(validation_history)].justification])) >= 20

\* the requirements of a risk level that a proof package leaves unmet: its
\* key is absent from the package or mapped to a falsy value
unmet_of ==
  [risk_level \in {LOW, MEDIUM, HIGH}, proof_data \in ProofPackages |->
     {req \in Range(requirements_of[risk_level]) :
        req.key \notin DOMAIN proof_data \/ ~Truthy(proof_data[req.key])}]

\* the requirements of the current task that the proof package p leaves unmet
Unmet(p) == unmet_of[current_task[1].risk_level, p]

\* C7: validate_completion with a proof package in which a key required for
\* the current task's tier is absent or falsy returns REJECTED, its message
\* lists the description of every such key, and current_task,
\* work_log_active, validation_history and the document are unchanged.
C7_IncompleteProofIsRejected ==
  [][ (last'.op = "validate_completion" /\ current_task # NoTask)
        => \A proof_data \in ProofPackages :
             (validate_completion(proof_data) /\ Unmet(proof_data) # {})
               => /\ last'.result = REJECTED
                  /\ last'.message.kind = "missing_proof"
                  /\ Range(last'.message.items) = {req.desc : req \in Unmet(proof_data)}
                  /\ UNCHANGED <<current_task, work_log_active, validation_history, doc>>
    ]_vars

\* C7 happens: a completion was rejected listing several requirements, the work log still active
C7_Witness ==
  /\ last.op = "validate_completion"
  /\ last.result = REJECTED
  /\ Len(last.message.items) >= 2
  /\ current_task # NoTask
  /\ work_log_active

\* C8: validate_completion with a complete proof package for a current task
\* of tier HIGH returns PENDING and leaves the document (active_tasks and
\* completed_tasks), current_task and work_log_active unchanged.
C8_HighRiskCompletionIsPending ==
  [][ ( /\ last'.op = "validate_completion"
        /\ current_task # NoTask
        /\ current_task[1].risk_level = HIGH )
        => \A proof_data \in ProofPackages :
             (validate_completion(proof_data) /\ Unmet(proof_data) = {})
               => /\ last'.result = PENDING
                  /\ UNCHANGED <<doc, current_task, work_log_active>>
    ]_vars

\* C8 happens: a completion of a HIGH task returned PENDING and the task is still active
C8_Witness ==
  /\ last.op = "validate_completion"
  /\ last.result = PENDING
  /\ current_task # NoTask
  /\ current_task[1].risk_level = HIGH
  /\ current_task[1].id \in active_ids
  /\ current_task[1].id \notin completed_ids

\* C9 as stated: validate_completion with a complete proof package for a
\* current task of tier LOW or MEDIUM returns APPROVED; afterwards the
\* identifier is the last element of completed_tasks and is absent from
\* active_tasks, current_task is empty and work_log_active is false.
C9_CompletionMovesTheTask ==
  [][ ( /\ last'.op = "validate_completion"
        /\ current_task # NoTask
        /\ current_task[1].risk_level \in {LOW, MEDIUM} )
        => \A proof_data \in ProofPackages :
             (validate_completion(proof_data) /\ Unmet(proof_data) = {})
               => LET completed == Get(doc', "completed_tasks", <<>>)
                  IN  /\ last'.result = APPROVED
                      /\ completed # <<>>
                      /\ completed[Len(completed)] = current_task[1].id
                      /\ current_task[1].id \notin Range(Get(doc', "active_tasks", <<>>))
                      /\ current_task' = NoTask
                      /\ ~work_log_active'
    ]_vars

\* C10: no core operation changes how often an identifier that classifies as
\* HIGH occurs in completed_tasks or in active_tasks.
C10_HighRiskTaskIsNeverClosedByTheCore ==
  [][ \A task_id \in TaskIds :
        risk_level_of[task_id] = HIGH
          => /\ Occurrences(Get(doc', "completed_tasks", <<>>), task_id)
                  = Occurrences(Get(doc, "completed_tasks", <<>>), task_id)
             /\ Occurrences(Get(doc', "active_tasks", <<>>), task_id)
                  = Occurrences(Get(doc, "active_tasks", <<>>), task_id)
    ]_vars

\* C10 happens: other tasks were completed, the HIGH task got PENDING and is still listed as active
C10_Witness ==
  /\ last.op = "validate_completion"
  /\ last.result = PENDING
  /\ completed_ids # {}
  /\ \E task_id \in active_ids \ completed_ids : risk_level_of[task_id] = HIGH

\* C11 as stated: both initial documents have no identifier in both
\* sequences, and in every reachable state no identifier is in both
\* active_tasks and completed_tasks.
C11_NoIdentifierInBothSequences ==
  /\ \A d \in InitialDocuments :
       Range(Get(d, "active_tasks", <<>>)) \cap Range(Get(d, "completed_tasks", <<>>)) = {}
  /\ active_ids \cap completed_ids = {}

\* the proof keys each tier requires if the tiers are cumulative
C12_required ==
  LET low    == {"file_evidence", "functional_test", "error_check"}
      medium == low \cup {"integration_test", "syntax_validation"}
      high   == medium \cup {"comprehensive_testing", "security_check", "human_review_required"}
  IN  (LOW :> low) @@ (MEDIUM :> medium) @@ (HIGH :> high)

\* C12 as stated: for a current task, the keys require_completion_proof lists
\* are the cumulative keys of its tier, and validate_completion lets a proof
\* package pass (APPROVED or PENDING) only if every cumulative key of the
\* tier is present and truthy in it.
C12_ProofKeysAreCumulativeByTier ==
  [][ (last'.op = "validate_completion" /\ current_task # NoTask)
        => LET required == C12_required[current_task[1].risk_level]
               requirements == require_completion_proof.requirements
           IN  /\ {requirements[i].key : i \in 1..Len(requirements)} = required
               /\ \A proof_data \in ProofPackages :
                    (validate_completion(proof_data) /\ last'.result \in {APPROVED, PENDING})
                      => \A key \in required :
                           key \in DOMAIN proof_data /\ Truthy(proof_data[key])
    ]_vars

\* the proof package of the scenario: exactly six keys, each filled
C13_proof ==
  [key \in {"file_evidence", "functional_test", "error_check",
            "comprehensive_testing", "security_check", "human_review_required"} |-> Str("x")]

\* C13: on the registry {active_tasks: ["T1: implement user auth"],
\* completed_tasks: []}, set_current_task of that identifier returns APPROVED
\* and stores tier HIGH; with it selected start_work_log returns APPROVED;
\* with the work log active validate_action("add login", "Implementing login
\* for T1 auth") returns APPROVED; validate_completion with the six-key
\* package returns PENDING and leaves the registry unchanged.
C13_SingleHighRiskTaskScenario ==
  [][ doc = [active_tasks |-> <<"T1: implement user auth">>, completed_tasks |-> <<>>]
        => /\ (last'.op = "set_current_task" /\ set_current_task("T1: implement user auth"))
                => /\ last'.result = APPROVED
                   /\ current_task' # NoTask
                   /\ current_task'[1].id = "T1: implement user auth"
                   /\ current_task'[1].risk_level = HIGH
           /\ (current_task # NoTask /\ current_task[1].id = "T1: implement user auth")
                => /\ (last'.op = "start_work_log" /\ start_work_log)
                        => last'.result = APPROVED /\ work_log_active'
                   /\ ( /\ last'.op = "validate_action"
                        /\ work_log_active
                        /\ validate_action("add login", "Implementing login for T1 auth") )
                        => last'.result = APPROVED
                   /\ (last'.op = "validate_completion" /\ validate_completion(C13_proof))
                        => last'.result = PENDING /\ doc' = doc
    ]_vars

\* C13 happens: on the single-task registry the task was selected, the work
\* log started, the action recorded and the completion returned PENDING
C13_Witness ==
  /\ doc = [active_tasks |-> <<"T1: implement user auth">>, completed_tasks |-> <<>>]
  /\ current_task # NoTask
  /\ current_task[1].id = "T1: implement user auth"
  /\ current_task[1].risk_level = HIGH
  /\ work_log_active
  /\ \E i \in 1..Len(validation_history) :
       /\ validation_history[i].action = "add login"
       /\ validation_history[i].justification = "Implementing login for T1 auth"
       /\ validation_history[i].task_id = "T1: implement user auth"
  /\ last.op = "validate_completion"
  /\ last.result = PENDING

\* the tier of each identifier by the stated precedence
C14_tier ==
  ("T1: implement user auth" :> HIGH)        \* "auth" and "implement"
    @@ ("Pre-Production Dockerfile" :> HIGH) \* "production" and "docker"
    @@ ("T3: Refactor API" :> MEDIUM)        \* "refactor", "api"
    @@ ("rAPId prototyping" :> MEDIUM)       \* "api" inside "rapid"
    @@ ("T2: update docs" :> LOW)
    @@ ("T2: fix bug" :> LOW)

\* C14: the classifier gives every identifier the tier of the stated
\* precedence (HIGH over MEDIUM over LOW, by substring of the lower-cased
\* identifier), and in every reachable state the tier stored for the current
\* task is that tier, whatever was selected, logged, validated or completed
\* before.
C14_ClassifierIsPureWithFixedPrecedence ==
  /\ \A task_id \in TaskIds \cup UnlistedIds :
       risk_level_of[task_id] = C14_tier[task_id]
  /\ current_task # NoTask => current_task[1].risk_level = C14_tier[current_task[1].id]

\* C14 happens: after a completion and a recorded action, the identifier
\* with both a HIGH and a MEDIUM keyword is the current task, with tier HIGH
C14_Witness ==
  /\ current_task # NoTask
  /\ current_task[1].id = "T1: implement user auth"
  /\ current_task[1].risk_level = HIGH
  /\ completed_ids # {}
  /\ validation_history # <<>>
  /\ work_log_active

\* C15: start_work_log with no task selected returns BLOCKED and
\* work_log_active is false before and after; with a task selected it returns
\* APPROVED and work_log_active is true afterwards; in both cases
\* current_task, validation_history and the document are unchanged; called
\* with the work log already active it changes nothing of the session.
C15_StartWorkLog ==
  [][ last'.op = "start_work_log"
        => /\ UNCHANGED <<doc, current_task, validation_history>>
           /\ IF current_task = NoTask
              THEN last'.result = BLOCKED /\ ~work_log_active /\ ~work_log_active'
              ELSE last'.result = APPROVED /\ work_log_active'
           /\ (current_task # NoTask /\ work_log_active)
                => UNCHANGED <<doc, current_task, work_log_active, validation_history>>
    ]_vars

\* C15 happens: on the single-task registry, where no completion ever ends
\* the work log, start_work_log was called again after an action was recorded
C15_Witness ==
  /\ doc = SingleTaskDocument
  /\ validation_history # <<>>
  /\ last.op = "start_work_log"
  /\ last.result = APPROVED
  /\ work_log_active

\* C20: every step of the core operations keeps the records validation_history
\* holds, in their order, as a prefix of the new validation_history; the
\* length never decreases, a completion that resets the session included.
C20_ValidationHistoryIsAppendOnly ==
  [][ /\ Len(validation_history') >= Len(validation_history)
      /\ SubSeq(validation_history', 1, Len(validation_history)) = validation_history
    ]_vars

\* C20 happens: a record was appended to a history that already held a
\* record of another task, whose completion had reset the session in between
C20_Witness ==
  /\ Len(validation_history) = 2
  /\ validation_history[1].task_id \in completed_ids
  /\ validation_history[2].task_id # validation_history[1].task_id
  /\ current_task # NoTask
  /\ current_task[1].id = validation_history[2].task_id

C17_GuardNeverSuppressesAnException ==
  [][ (guard.phase = "entered" /\ guard'.phase = "left")
        => /\ guard'.exit_returned = <<FALSE>>
           /\ \A exc_type \in UnitOutcomes :
                with_statement_ends(exc_type)
                  => guard'.unit_raised = exc_type /\ guard'.raised = exc_type
           /\ UNCHANGED <<current_task, work_log_active>>
    ]_vars

\* C17 happens: the unit of an entered guard raised ValueError, the with
\* statement was left and the caller saw ValueError, the task still selected
C17_Witness ==
  /\ guard.phase = "left"
  /\ guard.executed
  /\ guard.unit_raised = "ValueError"
  /\ guard.raised = "ValueError"
  /\ current_task # NoTask
  /\ work_log_active

\* C18: every step that builds, enters or leaves a guard (a gate refused,
\* the unit returned, the unit raised) leaves current_task, work_log_active
\* and the document unchanged; and an entry is decided by the task selected
\* when it happens, whatever was selected when the guard was built: the unit
\* starts exactly when a task is selected, the work log is active and the
\* justification suffices for that task, and the record then appended names
\* that task.
C18_GuardNeverSwitchesTasks ==
  [][ /\ guard' # guard => UNCHANGED <<current_task, work_log_active, doc>>
      /\ (guard.phase = "constructed" /\ guard' # guard)
           => LET passes == /\ current_task # NoTask
                            /\ work_log_active
                            /\ C6_expected[current_task[1].id, guard.justification][1] = APPROVED
              IN  /\ guard'.phase = "entered" <=> passes
                  /\ guard'.phase = "left" <=> ~passes
                  /\ (current_task # NoTask /\ work_log_active)
                       => /\ Len(validation_history') = Len(validation_history) + 1
                          /\ validation_history'[Len(validation_history')].task_id
                               = current_task[1].id
    ]_vars

\* C18 happens: a guard built while another task, or none, was selected was
\* entered for the task selected at entry, which is still selected
C18_Witness ==
  /\ guard.phase = "entered"
  /\ current_task # NoTask
  /\ guard.constructed_for # current_task[1].id
  /\ last.op = "validate_action"
  /\ last.result = APPROVED
  /\ validation_history[Len(validation_history)].task_id = current_task[1].id
  /\ work_log_active

\* C19 as stated: a call of a function wrapped by require_completion_proof
\* executes the function only when validate_completion was called with the
\* proof_data and returned APPROVED; when validate_completion returns PENDING
\* the caller gets the status pending_human_review and no exception; and
\* enforce_completion_standards reports approved only when validate_completion
\* returned APPROVED.
C19_WrappedCompletionRunsOnlyWhenApproved ==
  [][ /\ \A proof_data \in ProofPackages :
           require_completion_proof_wrapper(proof_data)
             => /\ wrapped'.executed
                     => /\ last'.op = "validate_completion"
                        /\ validate_completion(proof_data)
                        /\ last'.result = APPROVED
                /\ (validate_completion(proof_data) /\ last'.result = PENDING)
                     => /\ ~wrapped'.executed
                        /\ wrapped'.raised = "None"
                        /\ wrapped'.returned = ("status" :> Str("pending_human_review"))
      /\ \A proof_package \in ProofPackages :
           enforce_completion_standards(proof_package)
             => ( ( /\ "approved" \in DOMAIN wrapped'.returned
                    /\ Truthy(wrapped'.returned["approved"]) )
                    => /\ validate_completion(proof_package)
                       /\ last'.result = APPROVED )
    ]_vars

\* C21: a validate_action call made with a task selected and the work log
\* active returns APPROVED or REJECTED and appends exactly one record, whose
\* task id is the current task's identifier and whose action and
\* justification are the call's; a call that returns BLOCKED leaves
\* validation_history as it is.
C21_EveryGatedActionIsRecorded ==
  [][ last'.op = "validate_action"
        => /\ (current_task # NoTask /\ work_log_active)
                => /\ last'.result \in {APPROVED, REJECTED}
                   /\ Len(validation_history') = Len(validation_history) + 1
                   /\ SubSeq(validation_history', 1, Len(validation_history)) = validation_history
                   /\ validation_history'[Len(validation_history')].task_id = current_task[1].id
                   /\ \A action_description \in ActionDescriptions,
                         justification \in Justifications :
                        validate_action(action_description, justification)
                          => LET record == validation_history'[Len(validation_history')]
                             IN  /\ record.action = action_description
                                 /\ record.justification = justification
           /\ last'.result = BLOCKED => UNCHANGED validation_history
    ]_vars

\* C21 happens: the history holds the record of a rejected action and, after
\* it, the record of an approved one, both of the current task
C21_Witness ==
  /\ Len(validation_history) = 2
  /\ last.op = "validate_action"
  /\ last.result = APPROVED
  /\ current_task # NoTask
  /\ validation_history[1].task_id = current_task[1].id
  /\ validation_history[2].task_id = current_task[1].id
  /\ C6_expected[current_task[1].id, validation_history[1].justification][1] = REJECTED
  /\ C6_expected[current_task[1].id, validation_history[2].justification][1] = APPROVED

\* C22 as stated: the record validate_action appends carries the outcome of
\* the call, approved when the call returned APPROVED and rejected when it
\* returned REJECTED.
C22_RecordCarriesTheOutcome ==
  [][ (last'.op = "validate_action" /\ last'.result \in {APPROVED, REJECTED})
        => /\ validation_history' # <<>>
           /\ validation_history'[Len(validation_history')].status = last'.result
    ]_vars

\* C26: a validate_completion that returns APPROVED leaves every key of the
\* document other than active_tasks and completed_tasks with its value and adds
\* no other key; the new active_tasks is the old one with one occurrence of
\* the identifier taken out and the rest in their order; the old
\* completed_tasks is a prefix of the new one.
C26_CompletionRewritesOnlyTheTaskLists ==
  [][ (last'.op = "validate_completion" /\ last'.result = APPROVED /\ current_task # NoTask)
        => LET id == current_task[1].id
               active == Get(doc, "active_tasks", <<>>)
               completed == Get(doc, "completed_tasks", <<>>)
               active_after == Get(doc', "active_tasks", <<>>)
               completed_after == Get(doc', "completed_tasks", <<>>)
           IN  /\ \A key \in DOMAIN doc \ {"active_tasks", "completed_tasks"} :
                    key \in DOMAIN doc' /\ doc'[key] = doc[key]
               /\ DOMAIN doc' \subseteq DOMAIN doc \cup {"active_tasks", "completed_tasks"}
               /\ \E i \in 1..Len(active) :
                    /\ active[i] = id
                    /\ active_after = SubSeq(active, 1, i - 1) \o SubSeq(active, i + 1, Len(active))
               /\ Len(completed_after) >= Len(completed)
               /\ SubSeq(completed_after, 1, Len(completed)) = completed
    ]_vars

\* C26 happens: a completion was approved on the document that carries
\* project_name, which still carries it, with a task left in active_tasks
C26_Witness ==
  /\ last.op = "validate_completion"
  /\ last.result = APPROVED
  /\ "project_name" \in DOMAIN doc
  /\ doc["project_name"] = "demo"
  /\ completed_ids # {}
  /\ active_ids # {}

\* C27 as stated: validate_completion returns APPROVED or PENDING only when a
\* task is selected and the work log is active, a start_work_log having
\* returned APPROVED since the last completion.
C27_CompletionFollowsTheWorkLog ==
  [][ (last'.op = "validate_completion" /\ last'.result \in {APPROVED, PENDING})
        => /\ current_task # NoTask
           /\ work_log_active
           /\ log_started
    ]_vars

\* C28 as stated: once validate_completion has returned PENDING, and until a
\* set_current_task returns APPROVED, validate_action does not return
\* APPROVED and validate_completion returns neither REJECTED nor APPROVED.
C28_PendingReviewIsTerminalForTheCore ==
  [][ review_pending
        => /\ last'.op = "validate_action" => last'.result # APPROVED
           /\ last'.op = "validate_completion" => last'.result \notin {REJECTED, APPROVED}
    ]_vars

\* C23: while SESSION_STATE.json is absent or does not parse, a call of
\* get_active_tasks, set_current_task or get_status, and a validate_completion
\* with a complete proof package for a current task of tier LOW or MEDIUM,
\* ends with load_session_state's exception (FileNotFoundError for the absent
\* file, the JSON parse error for the other) and leaves current_task,
\* work_log_active, validation_history, the document and the file as they are.
C23_UnreadableRegistrySurfacesUnchanged ==
  [][ file # "json"
        => LET error == IF file = "absent" THEN "FileNotFoundError" ELSE "JSONDecodeError"
               unchanged == UNCHANGED <<current_task, work_log_active, validation_history,
                                        doc, file>>
           IN  /\ last'.op \in {"get_active_tasks", "set_current_task", "get_status"}
                    => last'.result = error /\ unchanged
               /\ ( /\ last'.op = "validate_completion"
                    /\ current_task # NoTask
                    /\ current_task[1].risk_level \in {LOW, MEDIUM} )
                    => \A proof_data \in ProofPackages :
                         (validate_completion(proof_data) /\ Unmet(proof_data) = {})
                           => last'.result = error /\ unchanged
    ]_vars

\* C23 happens: the file was deleted under a session with a task, a work log
\* and a recorded action, and the completion of the task ended with
\* FileNotFoundError, the session as it was
C23_Witness ==
  /\ file = "absent"
  /\ last.op = "validate_completion"
  /\ last.result = "FileNotFoundError"
  /\ current_task # NoTask
  /\ work_log_active
  /\ validation_history # <<>>

\* C30: a call of require_completion_proof or of get_status leaves
\* current_task, work_log_active, validation_history and the document
\* unchanged, whether a task is selected or not and whether the file can be
\* read or not; require_completion_proof returns an error and no requirement
\* exactly when no task is selected.
C30_ReadsChangeNothing ==
  [][ (last'.op \in {"require_completion_proof", "get_status"} /\ file' = file)
        => /\ UNCHANGED <<current_task, work_log_active, validation_history, doc>>
           /\ last'.op = "require_completion_proof"
                => IF current_task = NoTask
                   THEN last'.result = "error" /\ last'.message.items = <<>>
                   ELSE /\ last'.result = "requirements"
                        /\ last'.task_id = current_task[1].id
                        /\ last'.message.items # <<>>
    ]_vars

\* C30 happens: get_status reported a session with a task, an active work
\* log and two recorded actions
C30_Witness ==
  /\ last.op = "get_status"
  /\ last.result = "returned"
  /\ current_task # NoTask
  /\ last.task_id = current_task[1].id
  /\ last.message.items[1] = "TRUE"
  /\ last.message.items[3] = "2"
  /\ work_log_active
  /\ Len(validation_history) = 2

\* C29 as stated: after reset_task_state the enforcer get_enforcer returns
\* has no current task, an inactive work log and an empty validation_history,
\* and a guard entered before any other call of the enforcer is refused.
C29_ResetClearsTheEnforcer ==
  [][ /\ last'.op = "reset_task_state"
           => /\ current_task' = NoTask
              /\ ~work_log_active'
              /\ validation_history' = <<>>
      /\ (last.op = "reset_task_state" /\ guard.phase = "constructed" /\ guard' # guard)
           => guard'.phase = "left" /\ ~guard'.executed
    ]_vars

\* the step in which instance i writes the document and returns
C24_Writes(i) == peers[i].pc = "loaded" /\ peers'[i].pc = "idle"

\* instance j completed a task that the document instance i loaded lists as
\* active and not completed, and that the document on disk lists no longer
C24_LoadedBeforeTheOtherWrote(i, j) ==
  /\ i # j
  /\ peers[i].pc = "loaded"
  /\ peers[j].pc = "idle"
  /\ peers[j].returned.result = APPROVED
  /\ peers[j].returned.op = "validate_completion"
  /\ peers[j].completed # peers[i].current_task[1].id
  /\ peers[j].completed \in Range(Get(peers[i].session, "active_tasks", <<>>))
  /\ peers[j].completed \notin Range(Get(peers[i].session, "completed_tasks", <<>>))
  /\ peers[j].completed \notin Range(Get(doc, "active_tasks", <<>>))

\* C24: when an instance writes a document it loaded before another instance
\* completed a different task, both completions have returned APPROVED and
\* the document written lists the other instance's task in active_tasks and
\* not in completed_tasks: the later whole-document write replaces the
\* earlier one.
C24_LastWriterWins ==
  [][ \A i \in Instances, j \in Instances :
        (C24_LoadedBeforeTheOtherWrote(i, j) /\ C24_Writes(i))
          => /\ peers'[i].returned.result = APPROVED
             /\ peers'[j].returned.result = APPROVED
             /\ peers'[j].completed \in Range(doc'["active_tasks"])
             /\ peers'[j].completed \notin Range(doc'["completed_tasks"])
             /\ peers'[i].completed \in Range(doc'["completed_tasks"])
    ]_vars

\* both instances returned APPROVED for different tasks and the document
\* still lists one of the two as active and not as completed
C24_Witness ==
  \E i \in Instances, j \in Instances :
    /\ i # j
    /\ peers[i].pc = "idle" /\ peers[j].pc = "idle"
    /\ peers[i].returned = Call("validate_completion", "", APPROVED,
                                Message("completion_approved", <<>>))
    /\ peers[j].returned = peers[i].returned
    /\ peers[i].completed # peers[j].completed
    /\ peers[i].completed \in Range(Get(doc, "completed_tasks", <<>>))
    /\ peers[j].completed \in Range(Get(doc, "active_tasks", <<>>))
    /\ peers[j].completed \notin Range(Get(doc, "completed_tasks", <<>>))

\* C25: a completion whose task is not in the active_tasks it loaded writes
\* the loaded document back as it is, so both lists keep their contents and
\* the identifier is not appended again (the document on disk does not change
\* when nobody wrote since the load), and the call returns what a first
\* completion returns: APPROVED with the same message, the instance reset.
C25_CompletingAgainChangesNothing ==
  [][ \A i \in Instances :
        (/\ C24_Writes(i)
         /\ peers[i].current_task[1].id \notin
              Range(Get(peers[i].session, "active_tasks", <<>>)))
          => /\ doc' = peers[i].session
             /\ peers[i].session = doc => doc' = doc
             /\ peers'[i].returned = Call("validate_completion", "", APPROVED,
                                          Message("completion_approved", <<>>))
             /\ peers'[i].current_task = NoTask
    ]_vars

\* both instances selected the same task, one completed it, and the other,
\* loading the document afterwards, returned the same APPROVED: the document
\* lists the task as completed once
C25_Witness ==
  \E i \in Instances, j \in Instances :
    /\ i # j
    /\ peers[i].pc = "idle" /\ peers[j].pc = "idle"
    /\ peers[i].returned.result = APPROVED
    /\ peers[i].returned.op = "validate_completion"
    /\ peers[j].returned = peers[i].returned
    /\ peers[j].completed = peers[i].completed
    /\ peers[i].completed \notin Range(Get(peers[i].session, "active_tasks", <<>>))
    /\ peers[i].session = doc
    /\ Len(SelectSeq(doc["completed_tasks"], LAMBDA t : t = peers[i].completed)) = 1

\* C31: whenever a task is selected, the tier held in current_task is the
\* classifier's result for the identifier held in current_task, and so is
\* the tier require_completion_proof reports and validate_completion uses.
C31_StoredTierIsTheClassifiersTier ==
  current_task # NoTask
    => /\ current_task[1].risk_level = _assess_task_risk(current_task[1].id)
       /\ require_completion_proof.risk_level = _assess_task_risk(current_task[1].id)
       /\ require_completion_proof.requirements
            = requirements_for(_assess_task_risk(current_task[1].id))

\* a MEDIUM task selected while the registry also lists a HIGH one, after a
\* completion call that used the tier
C31_Witness ==
  /\ current_task # NoTask
  /\ current_task[1].risk_level = MEDIUM
  /\ \E t \in Range(get_active_tasks) : _assess_task_risk(t) = HIGH
  /\ last.op = "validate_completion"
  /\ last.result = REJECTED

\* C32: the work log is never active while no task is selected.
C32_ActiveWorkLogHasATask == work_log_active => current_task # NoTask

\* a completion was approved for a task whose work log had been started and
\* used: task and work log are both reset
C32_Witness ==
  /\ last.op = "validate_completion"
  /\ last.result = APPROVED
  /\ validation_history # <<>>
  /\ ~work_log_active
  /\ current_task = NoTask

\* a sequence that lists no element twice
C33_NoDuplicates(s) == \A m \in 1..Len(s), n \in 1..Len(s) : s[m] = s[n] => m = n

\* C33: with one enforcer writing the document and no identifier listed
\* twice in active_tasks, the identifier of the selected task is listed in
\* the active_tasks of the document on disk.
C33_SelectedTaskIsListedActive ==
  (current_task # NoTask /\ C33_NoDuplicates(get_active_tasks))
    => current_task[1].id \in Range(get_active_tasks)

\* a task is selected after another one was completed and removed from a
\* document without duplicates
C33_Witness ==
  /\ current_task # NoTask
  /\ C33_NoDuplicates(get_active_tasks)
  /\ Get(doc, "completed_tasks", <<>>) # <<>>
  /\ current_task[1].id \notin Range(doc["completed_tasks"])
  /\ last.op = "set_current_task"

\* how many times the registry document d lists identifier t, in
\* active_tasks and completed_tasks together
C34_Listed(d, t) ==
  Len(SelectSeq(Get(d, "active_tasks", <<>>), LAMBDA x : x = t))
    + Len(SelectSeq(Get(d, "completed_tasks", <<>>), LAMBDA x : x = t))

C35_ListedOnce(d) ==
  C33_NoDuplicates(Get(d, "active_tasks", <<>>) \o Get(d, "completed_tasks", <<>>))

\* C35: with one enforcer writing a document that lists no identifier twice,
\* an APPROVED completion appends the task to completed_tasks and takes it
\* out of active_tasks for good: every later set_current_task of a completed
\* identifier returns BLOCKED, completed_tasks lists it once, and
\* completed_tasks grows by one per APPROVED completion while both lists
\* together keep their length, so there are at most as many APPROVED
\* completions as active_tasks had entries at the start.
C35_CompletedTaskStaysCompleted ==
  [][ C35_ListedOnce(doc)
        => /\ (last'.op = "validate_completion" /\ last'.result = APPROVED)
                => /\ current_task # NoTask
                   /\ doc'["completed_tasks"]
                        = Append(Get(doc, "completed_tasks", <<>>), current_task[1].id)
                   /\ current_task[1].id \notin Range(doc'["active_tasks"])
           /\ Len(Get(doc', "active_tasks", <<>>)) + Len(Get(doc', "completed_tasks", <<>>))
                = Len(Get(doc, "active_tasks", <<>>)) + Len(Get(doc, "completed_tasks", <<>>))
           /\ \A T \in Range(Get(doc, "completed_tasks", <<>>)) :
                /\ set_current_task(T) => last'.result = BLOCKED
                /\ Len(SelectSeq(doc'["completed_tasks"], LAMBDA x : x = T)) = 1
    ]_vars

\* a completed task was selected again and the selection was blocked, in a
\* document that lists no identifier twice
C35_Witness ==
  /\ C35_ListedOnce(doc)
  /\ last.op = "set_current_task"
  /\ last.result = BLOCKED
  /\ last.task_id \in Range(Get(doc, "completed_tasks", <<>>))

\* the identifier has no token of more than 3 characters once lower-cased and
\* split on whitespace and colons
C36_NoLongToken(task_id) ==
  LET tokens == Split(Replace(Lower(Chars[task_id]), ":", " "))
  IN  \A i \in 1..Len(tokens) : Len(tokens[i]) <= 3

\* C36_NoLongToken tabulated over the identifiers of the model
C36_NoLongTokenOf == [task_id \in TaskIds |-> C36_NoLongToken(task_id)]

\* C36: while the selected task's identifier has no token longer than 3
\* characters, validate_action returns APPROVED for no action description
\* and no justification, it returns REJECTED whenever the work log is
\* active, and a guard that is entered is left with TaskViolationException
\* without its unit executing.
C36_TaskWithoutKeywordsAdmitsNothing ==
  [][ (current_task # NoTask /\ C36_NoLongTokenOf[current_task[1].id])
        => /\ \A action_description \in ActionDescriptions \cup GuardActionDescriptions,
                 justification \in Justifications :
                validate_action(action_description, justification)
                  => /\ last'.result # APPROVED
                     /\ work_log_active => last'.result = REJECTED
           /\ (guard.phase = "constructed" /\ guard' # guard)
                => /\ guard'.phase = "left"
                   /\ ~guard'.executed
                   /\ guard'.raised = "TaskViolationException"
    ]_vars

\* a guard with a justification of sufficient length was refused for the
\* task "T2: fix bug" with the work log active
C36_Witness ==
  /\ current_task # NoTask
  /\ current_task[1].id = "T2: fix bug"
  /\ C36_NoLongTokenOf[current_task[1].id]
  /\ work_log_active
  /\ last = Call("validate_action", "", REJECTED,
                 Message("no_connection_to_task", <<"T2: fix bug">>))
  /\ guard.phase = "left"
  /\ ~guard.executed
  /\ guard.raised = "TaskViolationException"

\* what validate_action returns as read off the selected task (NoTask or
\* its record), the work-log flag and the justification
C37_Outcome(task, log_active, justification) ==
  IF task = NoTask \/ ~log_active THEN BLOCKED
  ELSE IF insufficient_of[justification] THEN REJECTED
  ELSE IF any_keyword_of[task[1].id, justification] THEN APPROVED
  ELSE REJECTED

====
